---- MODULE Spec2Model ----
(***************************************************************************)
(* A model of src/src/domain_checker.py: the availability check with its   *)
(* retry/backoff (is_domain_available), the scan driver (main) with its    *)
(* per-iteration persistence, and the CSV files that carry the result sets *)
(* from one run of main to the next.                                       *)
(*                                                                         *)
(* Text is modelled as a sequence of one-character strings, so that        *)
(* concatenation, stripping, ordering and the CSV reader's type inference  *)
(* are computed and not assumed.                                           *)
(***************************************************************************)
EXTENDS Integers, Sequences, FiniteSets, TLC

(***************************************************************************)
(* Bounds of the model.                                                    *)
(***************************************************************************)
\* How many times main is started over the same backing files.
MaxRuns == 2

(***************************************************************************)
(* Text.                                                                   *)
(***************************************************************************)
\* The characters of the model in code-point order (Python orders str by
\* code point).
Alphabet == <<" ", ".", "0", "1", "5", "a", "b", "c", "d">>

Ord(c) == CHOOSE i \in 1..Len(Alphabet) : Alphabet[i] = c

Digits == {"0", "1", "5"}

Whitespace == {" "}

\* s < t for two texts, as Python compares str: by the first differing
\* character, a proper prefix being the smaller.
RECURSIVE StrLess(_, _)
StrLess(s, t) ==
    IF t = <<>> THEN FALSE
    ELSE IF s = <<>> THEN TRUE
    ELSE IF Head(s) = Head(t) THEN StrLess(Tail(s), Tail(t))
    ELSE Ord(Head(s)) < Ord(Head(t))

\* str.strip(): leading and trailing whitespace removed.
RECURSIVE LStrip(_)
LStrip(s) ==
    IF s # <<>> /\ Head(s) \in Whitespace THEN LStrip(Tail(s)) ELSE s

RECURSIVE RStrip(_)
RStrip(s) ==
    IF s # <<>> /\ s[Len(s)] \in Whitespace
    THEN RStrip(SubSeq(s, 1, Len(s) - 1))
    ELSE s

Strip(s) == RStrip(LStrip(s))

(***************************************************************************)
(* The input files and read_list_from_file.                                *)
(***************************************************************************)
NoFile == [exists |-> FALSE, lines |-> <<>>]

TextFile(ls) == [exists |-> TRUE, lines |-> ls]

\* The contents data/domain_names.txt may have.
NameFiles ==
    { NoFile,
      TextFile(<< <<" ">>, <<>> >>),
      TextFile(<< <<"b">>, <<"a">> >>),
      TextFile(<< <<"a">>, <<"a">> >>),
      TextFile(<< <<" ", "a">>, <<>>, <<"a", ".">> >>),
      TextFile(<< <<"1">> >>),
      TextFile(<< <<"5">>, <<"1", "5">> >>) }

\* The contents data/extensions.txt may have.
ExtFiles ==
    { NoFile,
      TextFile(<<>>),
      TextFile(<< <<"c">> >>),
      TextFile(<< <<"d">>, <<"c", " ">> >>),
      TextFile(<< <<"5">> >>),
      TextFile(<< <<"5", "0">> >>) }

\* [line.strip() for line in lines if line.strip()]
RECURSIVE StripLines(_)
StripLines(ls) ==
    IF ls = <<>> THEN <<>>
    ELSE IF Strip(Head(ls)) # <<>>
         THEN <<Strip(Head(ls))>> \o StripLines(Tail(ls))
         ELSE StripLines(Tail(ls))

\* read_list_from_file: a missing file is reported and gives the empty list.
read_list_from_file(f) ==
    IF f.exists THEN StripLines(f.lines) ELSE <<>>

(***************************************************************************)
(* concatenate_domains.                                                    *)
(***************************************************************************)
\* f"{s}.{ext}"
JoinDomain(s, ext) == s \o <<".">> \o ext

\* A variant with the names as the inner loop.
concatenate_domains_names_inner(strings, extensions) ==
    [k \in 1..(Len(strings) * Len(extensions)) |->
        JoinDomain(strings[((k - 1) % Len(strings)) + 1],
                   extensions[((k - 1) \div Len(strings)) + 1])]

\* [f"{s}.{ext}" for s in strings for ext in extensions]
concatenate_domains(strings, extensions) ==
    [k \in 1..(Len(strings) * Len(extensions)) |->
        JoinDomain(strings[((k - 1) \div Len(extensions)) + 1],
                   extensions[((k - 1) % Len(extensions)) + 1])]

(***************************************************************************)
(* The cells of a DataFrame's 'domain' column and the CSV files.           *)
(* A cell is a str or, after read_csv inferred a numeric column, a float;  *)
(* a float is held by its repr, which is what to_csv writes.               *)
(***************************************************************************)
StrCell(s) == [t |-> "str", v |-> s]

FloatCell(s) == [t |-> "float", v |-> s]

\* The position of the first "." of s (0 if none).
DotAt(s) ==
    IF \E i \in 1..Len(s) : s[i] = "."
    THEN CHOOSE i \in 1..Len(s) : s[i] = "." /\ \A j \in 1..(i - 1) : s[j] # "."
    ELSE 0

\* Whether the CSV reader parses the text as a number: digits, one point,
\* digits (every candidate holds a point with text on both sides).
IsNumeric(s) ==
    /\ DotAt(s) > 1
    /\ DotAt(s) < Len(s)
    /\ \A i \in 1..Len(s) : i # DotAt(s) => s[i] \in Digits

RECURSIVE DropLeadingZeros(_)
DropLeadingZeros(s) ==
    IF Len(s) > 1 /\ Head(s) = "0" THEN DropLeadingZeros(Tail(s)) ELSE s

RECURSIVE DropTrailingZeros(_)
DropTrailingZeros(s) ==
    IF Len(s) > 1 /\ s[Len(s)] = "0"
    THEN DropTrailingZeros(SubSeq(s, 1, Len(s) - 1))
    ELSE s

\* repr(float(s)) for a numeric text s: "1.50" and "1.5" are the same float.
FloatRepr(s) ==
    DropLeadingZeros(SubSeq(s, 1, DotAt(s) - 1)) \o <<".">>
        \o DropTrailingZeros(SubSeq(s, DotAt(s) + 1, Len(s)))

\* x < y for two floats held by their repr.
FloatLess(x, y) ==
    LET xi == SubSeq(x, 1, DotAt(x) - 1)
        yi == SubSeq(y, 1, DotAt(y) - 1)
        xf == SubSeq(x, DotAt(x) + 1, Len(x))
        yf == SubSeq(y, DotAt(y) + 1, Len(y))
    IN  IF Len(xi) # Len(yi) THEN Len(xi) < Len(yi)
        ELSE IF xi # yi THEN StrLess(xi, yi)
        ELSE StrLess(xf, yf)

\* A result file: missing, zero bytes long (opened for writing and not yet
\* written), or a header line and the rows.
MissingCsv == [st |-> "missing", rows |-> <<>>]

ZeroByteCsv == [st |-> "empty", rows |-> <<>>]

CsvOf(rows) == [st |-> "csv", rows |-> rows]

\* The result files an earlier scan, of other input lists, may have left:
\* a.c available, b.d and a.d unavailable.
EarlierAvailable == CsvOf(<< <<"a", ".", "c">> >>)

EarlierUnavailable == CsvOf(<< <<"b", ".", "d">>, <<"a", ".", "d">> >>)

\* What to_csv writes for a cell.
CellText(c) == c.v

\* df.to_csv(file_path, index=False), once the file is written and closed.
to_csv(df) == CsvOf([i \in 1..Len(df) |-> CellText(df[i])])

\* pd.read_csv: a column whose every row parses as a number becomes a float
\* column, any other column keeps its texts.
read_csv(f) ==
    IF f.rows # <<>> /\ \A i \in 1..Len(f.rows) : IsNumeric(f.rows[i])
    THEN [i \in 1..Len(f.rows) |-> FloatCell(FloatRepr(f.rows[i]))]
    ELSE [i \in 1..Len(f.rows) |-> StrCell(f.rows[i])]

\* Whether load_dataframe raises: read_csv raises EmptyDataError on a file
\* with no header line.
LoadRaises(f) == f.st = "empty"

\* load_dataframe: the file's rows, or an empty frame if there is no file.
load_dataframe(f) ==
    IF f.st = "missing" THEN <<>> ELSE read_csv(f)

(***************************************************************************)
(* Sorting (sort_values(by='domain')).                                     *)
(***************************************************************************)
\* Comparing a str with a float raises TypeError.
SortRaises(df) ==
    \E i, j \in 1..Len(df) : df[i].t # df[j].t

CellLess(a, b) ==
    IF a.t = "float" THEN FloatLess(a.v, b.v) ELSE StrLess(a.v, b.v)

RECURSIVE InsertSorted(_, _)
InsertSorted(c, sorted) ==
    IF sorted = <<>> THEN <<c>>
    ELSE IF CellLess(c, Head(sorted)) THEN <<c>> \o sorted
    ELSE <<Head(sorted)>> \o InsertSorted(c, Tail(sorted))

RECURSIVE SortCells(_)
SortCells(df) ==
    IF df = <<>> THEN <<>>
    ELSE InsertSorted(df[Len(df)], SortCells(SubSeq(df, 1, Len(df) - 1)))

\* df.sort_values(by='domain').reset_index(drop=True)
sort_values(df) == SortCells(df)

(***************************************************************************)
(* The lookup (whois.whois) and what is_domain_available makes of it.      *)
(***************************************************************************)
NoneValue == [t |-> "none", v |-> <<>>]

StrValue(s) == [t |-> "str", v |-> s]

ListValue(l) == [t |-> "list", v |-> l]

\* The shapes the registration-owner field (w.domain_name) comes in.
DomainNameValues ==
    { NoneValue, StrValue(<<>>), StrValue(<<"a", ".", "c">>),
      ListValue(<<>>), ListValue(<<NoneValue>>), ListValue(<<StrValue(<<>>)>>),
      ListValue(<<StrValue(<<"a", ".", "c">>)>>),
      ListValue(<<NoneValue, StrValue(<<>>)>>),
      ListValue(<<NoneValue, StrValue(<<"a", ".", "c">>)>>) }

NoOutcome == [kind |-> "none", domain_name |-> NoneValue]

\* whois.parser.PywhoisError: no such domain.
NoSuchDomain == [kind |-> "nxdomain", domain_name |-> NoneValue]

\* Any other exception.
LookupError == [kind |-> "error", domain_name |-> NoneValue]

Found(v) == [kind |-> "found", domain_name |-> v]

\* Everything one call of whois.whois can do.
Outcomes == {NoSuchDomain, LookupError} \cup {Found(v) : v \in DomainNameValues}

\* Python's truth value of None or a str.
Truthy(x) == x.t = "str" /\ x.v # <<>>

\* Lines 48-50: the availability a returned record stands for.
\* A variant that takes a list for registered only if every entry is truthy.
IsAvailableValueAll(x) ==
    IF x.t = "list"
    THEN ~ (\A i \in 1..Len(x.v) : Truthy(x.v[i]))
    ELSE x.t = "none" \/ x.v = <<>>

IsAvailableValue(x) ==
    IF x.t = "list"
    THEN ~ (\E i \in 1..Len(x.v) : Truthy(x.v[i]))
    ELSE x.t = "none" \/ x.v = <<>>

\* The default of the parameter max_attempts.
max_attempts == 5

\* The delay main sleeps after each check, in seconds.
sleep_time == 1

\* A variant with a linear backoff.
wait_time_linear(attempt) == 2 * attempt

\* wait_time = 2 ** attempt
wait_time(attempt) == 2 ^ attempt

\* Whether a failed attempt is retried.
MayRetry(attempt) == attempt <= max_attempts

\* A variant that reports the number of the attempt to come.
RetryEventNext(attempt, wait) ==
    [level |-> "warning", kind |-> "retry", attempt |-> attempt + 1, wait |-> wait]

\* logging.warning("... Retrying in {wait_time} seconds (Attempt {attempt}/...")
RetryEvent(attempt, wait) ==
    [level |-> "warning", kind |-> "retry", attempt |-> attempt, wait |-> wait]

\* A variant that reports the exhaustion with logging.warning.
ExhaustedEventAsWarning ==
    [level |-> "warning", kind |-> "exhausted", attempt |-> 0, wait |-> 0]

\* logging.error("Failed to check {domain} after {max_attempts} attempts.")
ExhaustedEvent ==
    [level |-> "error", kind |-> "exhausted", attempt |-> 0, wait |-> 0]

\* How a call of is_domain_available ends.
Pending == [kind |-> "pending", value |-> FALSE]

Return(b) == [kind |-> "return", value |-> b]

Raise == [kind |-> "raise", value |-> FALSE]

\* A variant that lets the last exception through.
OnExhaustedRaise == Raise

\* Line 64: what the call gives when the retries are used up.
OnExhausted == Return(FALSE)

(***************************************************************************)
(* update_dataframes and the filtering of main.                            *)
(***************************************************************************)
\* A variant that loses the new row.
ConcatRowDropped(df, domain) == df

\* pd.concat([df, pd.DataFrame({'domain': [domain]})], ignore_index=True)
ConcatRow(df, domain) == Append(df, StrCell(domain))

\* set(available_df['domain']).union(set(unavailable_df['domain']))
ProcessedDomains(a, u) ==
    {a[i] : i \in 1..Len(a)} \cup {u[i] : i \in 1..Len(u)}

\* A variant that keeps a repeated candidate once.
RECURSIVE FilterDomainsOnce(_, _)
FilterDomainsOnce(all, processed) ==
    IF all = <<>> THEN <<>>
    ELSE IF StrCell(Head(all)) \notin processed
         THEN <<Head(all)>>
                  \o FilterDomainsOnce(Tail(all), processed \cup {StrCell(Head(all))})
         ELSE FilterDomainsOnce(Tail(all), processed)

\* [d for d in all_domains if d not in processed_domains]
RECURSIVE FilterDomains(_, _)
FilterDomains(all, processed) ==
    IF all = <<>> THEN <<>>
    ELSE IF StrCell(Head(all)) \notin processed
         THEN <<Head(all)>> \o FilterDomains(Tail(all), processed)
         ELSE FilterDomains(Tail(all), processed)

\* A variant that gives up only when both lists are empty.
\* A variant in which the frame passed in takes the new row in place.
ConcatOperandInPlace(df, domain) == Append(df, StrCell(domain))

\* pd.concat builds a new frame: the frame passed in is as it was.
ConcatOperand(df, domain) == df

\* No call of update_dataframes yet.
NoUpdate ==
    [called |-> FALSE, domain |-> <<>>, result |-> FALSE,
     inA |-> <<>>, inU |-> <<>>, argA |-> <<>>, argU |-> <<>>,
     outA |-> <<>>, outU |-> <<>>]

\* A variant that does not sleep.
PausedSkipped(p) == p

\* time.sleep(sleep_time), as the time main has slept between checks.
Paused(p) == p + sleep_time

InputIsEmptyBoth(names, exts) == names = <<>> /\ exts = <<>>

\* Line 127: not domain_names or not extensions
InputIsEmpty(names, exts) == names = <<>> \/ exts = <<>>

(***************************************************************************)
(* The state.                                                              *)
(***************************************************************************)
VARIABLES
    namesFile,              \* data/domain_names.txt
    extsFile,               \* data/extensions.txt
    seeded,                 \* whether an earlier scan had left result files
    fileA,                  \* data/available_domains.csv
    fileU,                  \* data/unavailable_domains.csv
    status,                 \* of the process: idle, running, done, aborted, crashed, killed
    phase,                  \* of main: loading, checking, finalizing
    pc,                     \* where main stands
    available_df,
    unavailable_df,
    domains_to_check,
    index,                  \* the loop's position in domains_to_check, from 1
    available_df_sorted,
    unavailable_df_sorted,
    attempt,                \* is_domain_available's parameter
    ret,                    \* how the call of is_domain_available ended
    last,                   \* what the last lookup of this check did
    lookups,                \* whois.whois calls of this check
    sleeps,                 \* time.sleep calls of this check, in order
    log,                    \* warning and error events of this check, in order
    runs,                   \* how many times main was started
    prev,                   \* how the run before this one ended
    startA,                 \* fileA when this run loaded it
    startU,                 \* fileU when this run loaded it
    loadedA,                \* available_df as this run loaded it
    loadedU,                \* unavailable_df as this run loaded it
    all_domains,            \* the candidates this run generated
    looked,                 \* the domains this run issued a lookup for
    checked,                \* the checks of this run that returned, in order
    writesA,                \* completed writes of fileA in this run
    writesU,                \* completed writes of fileU in this run
    pauses,                 \* inter-check sleeps of this run
    update,                 \* the last call of update_dataframes of this run
    earlier                 \* the domains that earlier runs gave up on and wrote

inputVars == <<namesFile, extsFile, seeded>>

fileVars == <<fileA, fileU>>

frameVars == <<available_df, unavailable_df, domains_to_check, index,
               available_df_sorted, unavailable_df_sorted>>

checkVars == <<attempt, ret, last, lookups, sleeps, log>>

runVars == <<runs, prev, startA, startU, loadedA, loadedU, all_domains, earlier>>

traceVars == <<looked, checked, writesA, writesU, pauses, update>>

vars == <<inputVars, fileVars, status, phase, pc, frameVars, checkVars,
          runVars, traceVars>>

\* The domains of the first n checks that ended by the retries being used
\* up: with n the writes of the unavailable file, those whose row a save of
\* lines 153 or 91 has written.
GaveUpAndWrote(cs, n) ==
    {cs[i].domain : i \in {k \in 1..Len(cs) : k <= n /\ cs[k].exhausted}}

\* The domain the loop is at.
domain == domains_to_check[index]

\* A fresh call is_domain_available(domain): attempt = 1.
FreshCheck ==
    /\ attempt' = 1
    /\ ret' = Pending
    /\ last' = NoOutcome
    /\ lookups' = 0
    /\ sleeps' = <<>>
    /\ log' = <<>>

\* Where the for loop of line 148 goes with its position at i.
LoopAt(i, todo) == IF i <= Len(todo) THEN "check" ELSE "sort"

LoopPhase(i, todo) == IF i <= Len(todo) THEN "checking" ELSE "finalizing"

Init ==
    /\ namesFile \in NameFiles
    /\ extsFile \in ExtFiles
    /\ seeded \in BOOLEAN
    /\ fileA = IF seeded THEN EarlierAvailable ELSE MissingCsv
    /\ fileU = IF seeded THEN EarlierUnavailable ELSE MissingCsv
    /\ status = "idle"
    /\ phase = "loading"
    /\ pc = "load"
    /\ available_df = <<>>
    /\ unavailable_df = <<>>
    /\ domains_to_check = <<>>
    /\ index = 1
    /\ available_df_sorted = <<>>
    /\ unavailable_df_sorted = <<>>
    /\ attempt = 1
    /\ ret = Pending
    /\ last = NoOutcome
    /\ lookups = 0
    /\ sleeps = <<>>
    /\ log = <<>>
    /\ runs = 0
    /\ prev = "none"
    /\ startA = fileA
    /\ startU = fileU
    /\ loadedA = <<>>
    /\ loadedU = <<>>
    /\ all_domains = <<>>
    /\ earlier = {}
    /\ update = NoUpdate
    /\ looked = {}
    /\ checked = <<>>
    /\ writesA = 0
    /\ writesU = 0
    /\ pauses = 0

(***************************************************************************)
(* main, lines 96-142: load the result sets and the input lists, give up   *)
(* on an empty input, generate the candidates and filter them.             *)
(***************************************************************************)
StartMain ==
    /\ status # "running"
    /\ runs < MaxRuns
    /\ runs' = runs + 1
    /\ prev' = status
    /\ startA' = fileA
    /\ startU' = fileU
    /\ earlier' = earlier \cup GaveUpAndWrote(checked, writesU)
    /\ looked' = {}
    /\ checked' = <<>>
    /\ writesA' = 0
    /\ writesU' = 0
    /\ pauses' = 0
    /\ update' = NoUpdate
    /\ FreshCheck
    /\ index' = 1
    /\ available_df_sorted' = <<>>
    /\ unavailable_df_sorted' = <<>>
    /\ UNCHANGED <<inputVars, fileVars>>
    /\ IF LoadRaises(fileA) \/ LoadRaises(fileU)
       THEN /\ status' = "crashed"
            /\ phase' = "loading"
            /\ pc' = "load"
            /\ available_df' = <<>>
            /\ unavailable_df' = <<>>
            /\ loadedA' = <<>>
            /\ loadedU' = <<>>
            /\ all_domains' = <<>>
            /\ domains_to_check' = <<>>
       ELSE LET a == load_dataframe(fileA)
                u == load_dataframe(fileU)
                domain_names == read_list_from_file(namesFile)
                extensions == read_list_from_file(extsFile)
                all == concatenate_domains(domain_names, extensions)
                todo == FilterDomains(all, ProcessedDomains(a, u))
            IN  /\ available_df' = a
                /\ unavailable_df' = u
                /\ loadedA' = a
                /\ loadedU' = u
                /\ IF InputIsEmpty(domain_names, extensions)
                   THEN /\ status' = "aborted"
                        /\ phase' = "loading"
                        /\ pc' = "load"
                        /\ all_domains' = <<>>
                        /\ domains_to_check' = <<>>
                   ELSE /\ status' = "running"
                        /\ phase' = LoopPhase(1, todo)
                        /\ pc' = LoopAt(1, todo)
                        /\ all_domains' = all
                        /\ domains_to_check' = todo

(***************************************************************************)
(* is_domain_available, lines 40-64: one invocation, that is one lookup    *)
(* and what follows it up to the return or the recursive call.             *)
(***************************************************************************)
IsDomainAvailable(o) ==
    /\ status = "running"
    /\ pc = "check"
    /\ lookups' = lookups + 1
    /\ looked' = looked \cup {domain}
    /\ last' = o
    /\ IF o.kind = "error" /\ MayRetry(attempt)
       THEN /\ log' = Append(log, RetryEvent(attempt, wait_time(attempt)))
            /\ sleeps' = Append(sleeps, wait_time(attempt))
            /\ attempt' = attempt + 1
            /\ UNCHANGED <<ret, pc, checked>>
       ELSE LET r == CASE o.kind = "found" -> Return(IsAvailableValue(o.domain_name))
                       [] o.kind = "nxdomain" -> Return(TRUE)
                       [] OTHER -> OnExhausted
            IN  /\ ret' = r
                /\ log' = IF o.kind = "error" THEN Append(log, ExhaustedEvent) ELSE log
                /\ pc' = "returned"
                /\ checked' = Append(checked, [domain |-> domain, result |-> r,
                                            exhausted |-> o.kind = "error"])
                /\ UNCHANGED <<sleeps, attempt>>
    /\ UNCHANGED <<inputVars, fileVars, status, phase, frameVars, runVars,
                   writesA, writesU, pauses, update>>

Lookup == \E o \in Outcomes : IsDomainAvailable(o)

(***************************************************************************)
(* update_dataframes, lines 66-79, once is_domain_available has returned.  *)
(***************************************************************************)
UpdateDataframes ==
    /\ status = "running"
    /\ pc = "returned"
    /\ IF ret.kind = "raise"
       THEN /\ status' = "crashed"
            /\ UNCHANGED <<pc, available_df, unavailable_df, update>>
       ELSE /\ status' = status
            /\ pc' = "saveA"
            /\ IF ret.value
               THEN /\ available_df' = ConcatRow(available_df, domain)
                    /\ UNCHANGED unavailable_df
               ELSE /\ unavailable_df' = ConcatRow(unavailable_df, domain)
                    /\ UNCHANGED available_df
            /\ update' = [called |-> TRUE,
                          domain |-> domain,
                          result |-> ret.value,
                          inA |-> available_df,
                          inU |-> unavailable_df,
                          argA |-> IF ret.value
                                   THEN ConcatOperand(available_df, domain)
                                   ELSE available_df,
                          argU |-> IF ret.value
                                   THEN unavailable_df
                                   ELSE ConcatOperand(unavailable_df, domain),
                          outA |-> available_df',
                          outU |-> unavailable_df']
    /\ FreshCheck
    /\ UNCHANGED <<inputVars, fileVars, phase, domains_to_check, index,
                   available_df_sorted, unavailable_df_sorted, runVars,
                   looked, checked, writesA, writesU, pauses>>

(***************************************************************************)
(* save_dataframe, lines 15-19.  to_csv opens the file for writing, which  *)
(* empties it, and the rows are in the file once it is written and closed. *)
(***************************************************************************)
\* A variant that saves, in the loop, the frame as it was loaded.
FrameAStale == IF phase = "finalizing" THEN available_df_sorted ELSE loadedA

\* The frame a save writes: lines 152-153 in the loop, 90-91 at the end.
FrameA == IF phase = "finalizing" THEN available_df_sorted ELSE available_df

FrameU == IF phase = "finalizing" THEN unavailable_df_sorted ELSE unavailable_df

OpenA ==
    /\ status = "running"
    /\ pc = "saveA"
    /\ fileA' = ZeroByteCsv
    /\ pc' = "writeA"
    /\ UNCHANGED <<inputVars, fileU, status, phase, frameVars, checkVars,
                   runVars, traceVars>>

WriteA ==
    /\ status = "running"
    /\ pc = "writeA"
    /\ fileA' = to_csv(FrameA)
    /\ writesA' = writesA + 1
    /\ pc' = "saveU"
    /\ UNCHANGED <<inputVars, fileU, status, phase, frameVars, checkVars,
                   runVars, looked, checked, writesU, pauses, update>>

OpenU ==
    /\ status = "running"
    /\ pc = "saveU"
    /\ fileU' = ZeroByteCsv
    /\ pc' = "writeU"
    /\ UNCHANGED <<inputVars, fileA, status, phase, frameVars, checkVars,
                   runVars, traceVars>>

WriteU ==
    /\ status = "running"
    /\ pc = "writeU"
    /\ fileU' = to_csv(FrameU)
    /\ writesU' = writesU + 1
    /\ IF phase = "finalizing"
       THEN /\ status' = "done"
            /\ pc' = "end"
       ELSE /\ status' = status
            /\ pc' = "sleep"
    /\ UNCHANGED <<inputVars, fileA, phase, frameVars, checkVars,
                   runVars, looked, checked, writesA, pauses, update>>

(***************************************************************************)
(* main, lines 155-160: the pause after a check, and on to the next one.   *)
(***************************************************************************)
Sleep ==
    /\ status = "running"
    /\ pc = "sleep"
    /\ pauses' = Paused(pauses)
    /\ index' = index + 1
    /\ pc' = LoopAt(index + 1, domains_to_check)
    /\ phase' = LoopPhase(index + 1, domains_to_check)
    /\ UNCHANGED <<inputVars, fileVars, status, available_df, unavailable_df,
                   domains_to_check, available_df_sorted, unavailable_df_sorted,
                   checkVars, runVars, looked, checked, writesA, writesU, update>>

(***************************************************************************)
(* sort_and_save_dataframes, lines 81-91: the sorting; the two saves       *)
(* follow as OpenA, WriteA, OpenU, WriteU.                                 *)
(***************************************************************************)
SortDataframes ==
    /\ status = "running"
    /\ pc = "sort"
    /\ IF SortRaises(available_df) \/ SortRaises(unavailable_df)
       THEN /\ status' = "crashed"
            /\ UNCHANGED <<pc, available_df_sorted, unavailable_df_sorted>>
       ELSE /\ status' = status
            /\ pc' = "saveA"
            /\ available_df_sorted' = sort_values(available_df)
            /\ unavailable_df_sorted' = sort_values(unavailable_df)
    /\ UNCHANGED <<inputVars, fileVars, phase, available_df, unavailable_df,
                   domains_to_check, index, checkVars, runVars, traceVars>>

(***************************************************************************)
(* The process is terminated from outside, wherever main stands.           *)
(***************************************************************************)
Terminate ==
    /\ status = "running"
    /\ status' = "killed"
    /\ UNCHANGED <<inputVars, fileVars, phase, pc, frameVars, checkVars,
                   runVars, traceVars>>

Next ==
    \/ StartMain
    \/ Lookup
    \/ UpdateDataframes
    \/ OpenA
    \/ WriteA
    \/ OpenU
    \/ WriteU
    \/ Sleep
    \/ SortDataframes
    \/ Terminate

Spec == Init /\ [][Next]_vars

(***************************************************************************)
(* Properties of is_domain_available.                                      *)
(***************************************************************************)
\* The call has returned and its last lookup had failed: the retries are
\* used up.
Exhausted == pc = "returned" /\ last.kind = "error"

\* The call has returned on a lookup that did not fail.
Answered == pc = "returned" /\ last.kind \in {"found", "nxdomain"}

\* C1: a check issues at most max_attempts = 5 lookups, also when every
\* lookup fails with a transient error.
C1_AtMostMaxAttemptsLookups == lookups <= max_attempts

ExpectedWaits == <<2, 4, 8, 16, 32>>

RECURSIVE SumSeq(_)
SumSeq(s) == IF s = <<>> THEN 0 ELSE Head(s) + SumSeq(Tail(s))

\* C2: the k-th sleep of a check is 2^k (2, 4, 8, 16, 32 in that order),
\* there is never a sixth, and a check whose lookups all failed has slept
\* exactly these five, 62 in total.
C2_BackoffWaits ==
    /\ Len(sleeps) <= Len(ExpectedWaits)
    /\ \A k \in 1..Len(sleeps) : sleeps[k] = ExpectedWaits[k]
    /\ Exhausted => sleeps = ExpectedWaits /\ SumSeq(sleeps) = 62

C2_Witness == Exhausted /\ Len(sleeps) = 5 /\ sleeps[5] = 32

\* C3: whatever the lookups do, the call ends by returning a boolean, never
\* by raising, and the boolean is FALSE when the retries are used up.
C3_AlwaysReturnsBoolean ==
    pc = "returned" =>
        /\ ret.kind = "return"
        /\ ret.value \in BOOLEAN
        /\ Exhausted => ret.value = FALSE

C3_Witness == Exhausted /\ lookups = 6 /\ ret = Return(FALSE)

\* The events of this check that report the exhaustion, at one level.
ExhaustionEvents(level) ==
    {i \in 1..Len(log) : log[i].kind = "exhausted" /\ log[i].level = level}

\* C4 as stated: the exhaustion is reported as a warning-level event, and
\* not as an error-level one, exactly once.
C4_ExhaustionIsOneWarning ==
    Exhausted =>
        /\ Cardinality(ExhaustionEvents("warning")) = 1
        /\ ExhaustionEvents("error") = {}

\* C4 amended: the exhaustion is reported as an error-level event, and not
\* as a warning-level one, exactly once, and only when the retries are used
\* up.
C4_ExhaustionIsOneError ==
    /\ Exhausted =>
        /\ Cardinality(ExhaustionEvents("error")) = 1
        /\ ExhaustionEvents("warning") = {}
    /\ ~ Exhausted =>
        ExhaustionEvents("error") \cup ExhaustionEvents("warning") = {}

C4_Witness == Exhausted /\ log[Len(log)].level = "error" /\ Len(log) = 6

\* The availability the claims give to a lookup that did not fail: no such
\* domain, or an owner field that is None, "" or a list of None and "".
ClaimedAvailable(o) ==
    \/ o.kind = "nxdomain"
    \/ /\ o.kind = "found"
       /\ \/ o.domain_name = NoneValue
          \/ o.domain_name = StrValue(<<>>)
          \/ /\ o.domain_name.t = "list"
             /\ \A i \in 1..Len(o.domain_name.v) :
                    o.domain_name.v[i] \in {NoneValue, StrValue(<<>>)}

\* C5: after r failed lookups and then one that did not fail, the call
\* returns what that one stands for, and has emitted exactly r warnings,
\* the k-th with attempt number k and wait 2^k.
C5_RetriesThenAnswer ==
    Answered =>
        /\ ret = Return(ClaimedAvailable(last))
        /\ Len(log) = lookups - 1
        /\ \A k \in 1..Len(log) :
               log[k] = [level |-> "warning", kind |-> "retry",
                         attempt |-> k, wait |-> ExpectedWaits[k]]

C5_Witness ==
    /\ Answered
    /\ lookups = 6
    /\ Len(log) = 5
    /\ log[5].attempt = 5
    /\ log[5].wait = 32
    /\ ret = Return(TRUE)

\* C6: a lookup that does not fail gives TRUE exactly for no such domain
\* and for an owner field that is None, "" or a list with no truthy entry,
\* and FALSE for a non-empty string and a list with a truthy entry.
C6_AvailabilityOfAnswer ==
    Answered => (ret.value <=> ClaimedAvailable(last))

C6_Witness ==
    /\ Answered
    /\ lookups = 1
    /\ last = Found(ListValue(<<NoneValue, StrValue(<<"a", ".", "c">>)>>))
    /\ ret = Return(FALSE)

(***************************************************************************)
(* Properties of main.                                                     *)
(***************************************************************************)
Rows(f) == {f.rows[i] : i \in 1..Len(f.rows)}

\* C7: a run that follows a completed run, with the same input lists and
\* the files as that run left them, has nothing to check and looks nothing
\* up.
C7_SecondRunChecksNothing ==
    prev = "done" => domains_to_check = <<>> /\ looked = {}

\* C8: no lookup is issued for a domain that was in a result file when the
\* run loaded it.
C8_NoLookupOfPersisted ==
    \A d \in looked : d \notin Rows(startA) \cup Rows(startU)

\* Whether the result of a returned check is in the file it belongs to.
Persisted(c) ==
    IF c.result.value THEN c.domain \in Rows(fileA) ELSE c.domain \in Rows(fileU)

\* The returned checks of this run that the files do not hold.
Lost == {i \in 1..Len(checked) : ~ Persisted(checked[i])}

CheckedDomains == {checked[i].domain : i \in 1..Len(checked)}

CellTexts(df) == {CellText(df[i]) : i \in 1..Len(df)}

Writing == pc \in {"writeA", "writeU"}

C10_EmptyInputAborts ==
    (read_list_from_file(namesFile) = <<>> \/ read_list_from_file(extsFile) = <<>>) =>
        /\ status \in {"idle", "aborted"}
        /\ phase = "loading"
        /\ looked = {}
        /\ writesA = 0
        /\ writesU = 0
        /\ fileA = startA
        /\ fileU = startU
        /\ available_df_sorted = <<>>
        /\ unavailable_df_sorted = <<>>

C10_Witness ==
    /\ status = "aborted"
    /\ read_list_from_file(namesFile) # <<>>
    /\ ~ extsFile.exists
    /\ fileA = EarlierAvailable
    /\ fileU = EarlierUnavailable

AscendingTexts(s) == \A i, j \in 1..Len(s) : i < j => ~ StrLess(s[j], s[i])

\* How often x occurs in the sequence s.
Occurrences(x, s) == Cardinality({i \in 1..Len(s) : s[i] = x})

\* Whether s and t hold the same rows, each as often.
SameRows(s, t) ==
    /\ Len(s) = Len(t)
    /\ \A i \in 1..Len(s) : Occurrences(s[i], s) = Occurrences(s[i], t)

TextsOf(df) == [i \in 1..Len(df) |-> df[i].v]

\* C12: what the finalization leaves in each file is in ascending order of
\* the domain strings and holds the rows of the frame it was given, each as
\* often, the available frame in the available file and the unavailable
\* frame in the unavailable file, and only after every candidate to check
\* has been processed.
C12_FinalFilesSortedByString ==
    status = "done" =>
        /\ AscendingTexts(fileA.rows)
        /\ AscendingTexts(fileU.rows)
        /\ SameRows(fileA.rows, TextsOf(available_df))
        /\ SameRows(fileU.rows, TextsOf(unavailable_df))
        /\ index = Len(domains_to_check) + 1
        /\ Len(checked) = Len(domains_to_check)

\* C13: whenever a candidate's lookups are issued, main has slept
\* sleep_time once for each candidate checked before it.
C13_PauseBetweenChecks ==
    pc = "check" =>
        /\ pauses = (index - 1) * sleep_time
        /\ Len(checked) = index - 1

C13_Witness ==
    /\ status = "running"
    /\ pc = "check"
    /\ lookups = 1
    /\ index = 3
    /\ pauses = 2

\* The run has generated its candidates: it got past the loading.
Generated == phase # "loading"

Candidates ==
    LET N == read_list_from_file(namesFile)
        E == read_list_from_file(extsFile)
    IN  {N[i] \o <<".">> \o E[j] : i \in 1..Len(N), j \in 1..Len(E)}

\* C15: starting from no result files, every row of the two files is a
\* candidate that a run generated.
C15_PersistedAreCandidates ==
    ~ seeded => Rows(fileA) \cup Rows(fileU) \subseteq Candidates

\* C16: update_dataframes returns the frames with the one row `domain`
\* appended at the end of the available frame if the check gave TRUE, of
\* the unavailable frame if not, the other frame as it was, and leaves the
\* frames it was passed as they were.
C16_UpdateAppendsOneRow ==
    update.called =>
        /\ update.argA = update.inA
        /\ update.argU = update.inU
        /\ IF update.result
           THEN /\ update.outA = update.inA \o << [t |-> "str", v |-> update.domain] >>
                /\ update.outU = update.inU
           ELSE /\ update.outU = update.inU \o << [t |-> "str", v |-> update.domain] >>
                /\ update.outA = update.inA

C16_Witness ==
    /\ update.called
    /\ ~ update.result
    /\ Len(update.inU) = 2
    /\ Len(update.outU) = 3
    /\ Len(update.inA) = 1
    /\ update.outA = update.inA

\* The cells of the two frames as this run loaded them.
LoadedCells ==
    {loadedA[i] : i \in 1..Len(loadedA)} \cup {loadedU[i] : i \in 1..Len(loadedU)}

\* The positions of the candidates that are in neither loaded frame.
Unprocessed ==
    {k \in 1..Len(all_domains) : [t |-> "str", v |-> all_domains[k]] \notin LoadedCells}

\* The checks whose row update_dataframes has appended.
Applied ==
    IF phase = "finalizing" THEN Len(domains_to_check)
    ELSE IF pc \in {"check", "returned"} THEN index - 1
    ELSE index

\* The domains of the first n returned checks that gave b, as cells.
RECURSIVE RowsOf(_, _, _)
RowsOf(cs, n, b) ==
    IF n = 0 THEN <<>>
    ELSE IF cs[n].result.value = b
         THEN RowsOf(cs, n - 1, b) \o << [t |-> "str", v |-> cs[n].domain] >>
         ELSE RowsOf(cs, n - 1, b)

C18_RunIsNotCutShort ==
    /\ lookups <= max_attempts + 1
    /\ status = "crashed" => pc = "load"

\* Whether no row occurs twice in s.
NoRepeat(s) == \A i, j \in 1..Len(s) : i # j => s[i] # s[j]

\* Whether s and t share no row.
NoShared(s, t) == \A i \in 1..Len(s) : \A j \in 1..Len(t) : s[i] # t[j]

\* C19: with candidates that are all different and loaded sets that share
\* no domain and hold none twice, the two sets share no domain and hold
\* none twice, in memory and in the files, at every point of the run.
C19_DisjointAndDuplicateFree ==
    (/\ Generated
     /\ NoRepeat(all_domains)
     /\ NoRepeat(startA.rows)
     /\ NoRepeat(startU.rows)
     /\ NoShared(startA.rows, startU.rows)) =>
        /\ NoRepeat(available_df)
        /\ NoRepeat(unavailable_df)
        /\ NoShared(available_df, unavailable_df)
        /\ NoRepeat(fileA.rows)
        /\ NoRepeat(fileU.rows)
        /\ NoShared(fileA.rows, fileU.rows)

\* Whether s is the beginning of t.
IsPrefix(s, t) == Len(s) <= Len(t) /\ \A i \in 1..Len(s) : s[i] = t[i]

\* C20: in CHECKING every written version of a result file begins with
\* the file as it was loaded, so that no loaded row is removed or moved,
\* and the finalization only reorders the rows.
C20_FilesGrowAtTheEnd ==
    /\ (phase = "checking" /\ fileA.st # "empty") => IsPrefix(startA.rows, fileA.rows)
    /\ (phase = "checking" /\ fileU.st # "empty") => IsPrefix(startU.rows, fileU.rows)
    /\ status = "done" =>
        /\ SameRows(fileA.rows, TextsOf(available_df))
        /\ SameRows(fileU.rows, TextsOf(unavailable_df))

\* The checks of this run that ended by the retries being used up.
GaveUp == {i \in 1..Len(checked) : checked[i].exhausted}

\* C21: a check that ended by the retries being used up puts its domain at
\* the end of the unavailable frame, the next save of the unavailable file
\* writes it like any unavailable domain, and no later run over the same
\* files issues a lookup for a domain that an earlier run gave up on and
\* wrote.
C21_GivenUpIsNotLookedUpAgain ==
    /\ \A i \in GaveUp :
           /\ ~ checked[i].result.value
           /\ i <= Applied =>
                  [t |-> "str", v |-> checked[i].domain]
                      \in {unavailable_df[k] : k \in 1..Len(unavailable_df)}
           /\ (i <= writesU /\ fileU.st = "csv") => checked[i].domain \in Rows(fileU)
    /\ looked \cap earlier = {}

====
